---------------------------- MODULE Spec2Model ----------------------------
(***************************************************************************)
(* A model of cjkent/mandelbrot: the region splitter, the escape-time      *)
(* evaluator, the thread-pool orchestrator (calc_set_parallel), the        *)
(* palette generator and the sample averager (pixel_colour).               *)
(*                                                                         *)
(* f64 arithmetic is modelled as binary floating point with round to       *)
(* nearest, ties to even, an unbounded exponent and a significand of       *)
(* Precision bits (f64 itself is the same arithmetic with 53 bits).        *)
(* A float is a record [m, e] standing for m * 2^e, normalised so that     *)
(* 2^(Precision-1) <= |m| < 2^Precision; zero is [m |-> 0, e |-> 0].       *)
(***************************************************************************)
EXTENDS Integers, Sequences, FiniteSets, TLC

(***************************************************************************)
(* Bounds of the model.                                                    *)
(***************************************************************************)
\* bits of significand of the modelled floating point format
Precision == 11
\* how many times one run may leave the in-order, failure-free schedule:
\* a result sent ahead of a lower-indexed unfinished strip, or a closure
\* that panics
MaxUpsets == 1
\* escape_iterations: max_iterations ranges over 0..MaxIterations
MaxIterations == 3
\* split: height_px ranges over 0..MaxHeight, count over 1..MaxCount
MaxHeight == 7
MaxCount == 7
\* palette: size ranges up to MaxPaletteSize
MaxPaletteSize == 8
\* palette: the vertex lists have up to MaxVertices colours
MaxVertices == 3
\* pixel_colour: oversampling ranges over 1..MaxOversampling
MaxOversampling == 2
\* pixel_colour: the samples of a buffer range over 0..MaxSample
MaxSample == 3
\* SetDefinition::new: width_px ranges over 0..MaxWidth
MaxWidth == 3

(***************************************************************************)
(* Program constants.                                                      *)
(***************************************************************************)
\* calc_set_parallel: set_def.split(threads * 10)
StripsPerThread == 10
\* the largest u8, the saturation point of `as u8`
U8Max == 255

(***************************************************************************)
(* Floating point.                                                         *)
(***************************************************************************)
RECURSIVE Pow2(_)
Pow2(n) == IF n <= 0 THEN 1 ELSE 2 * Pow2(n - 1)

RECURSIVE BitLen(_)
BitLen(n) == IF n = 0 THEN 0 ELSE 1 + BitLen(n \div 2)

Abs(n) == IF n < 0 THEN -n ELSE n

Sign(n) == IF n < 0 THEN -1 ELSE IF n = 0 THEN 0 ELSE 1

Zero == [m |-> 0, e |-> 0]

\* +infinity, the result of dividing a positive number by 0.0
PosInf == [m |-> 0, e |-> 1]

\* The element of a singleton set.  The operators below bind their arguments
\* through singleton sets, so that each argument is evaluated once.
Only(S) == CHOOSE r \in S : TRUE

\* The float nearest to M * 2^E (ties to even).
FRound(M, E) ==
    Only({ IF a = 0 THEN Zero
           ELSE IF k <= 0
           THEN [m |-> Sign(M) * a * Pow2(-k), e |-> E + k]
           ELSE LET q    == a \div Pow2(k)
                    r    == a % Pow2(k)
                    half == Pow2(k - 1)
                    q1   == IF r > half \/ (r = half /\ q % 2 = 1)
                            THEN q + 1 ELSE q
                IN  IF q1 = Pow2(Precision)
                    THEN [m |-> Sign(M) * (q1 \div 2), e |-> E + k + 1]
                    ELSE [m |-> Sign(M) * q1, e |-> E + k]
           : a \in {Abs(M)}, k \in {BitLen(Abs(M)) - Precision} })

\* `n as f64` for an unsigned integer n
FInt(n) == FRound(n, 0)

FNeg(a) == [m |-> -a.m, e |-> a.e]

\* x + y.  An operand more than Precision + 2 binades below the other is
\* below a quarter of its last place and leaves it unchanged.
FAdd(x, y) ==
    Only({ IF a.m = 0 THEN b
           ELSE IF b.m = 0 THEN a
           ELSE IF a.e - b.e > Precision + 2 THEN a
           ELSE IF b.e - a.e > Precision + 2 THEN b
           ELSE LET lo == IF a.e < b.e THEN a.e ELSE b.e
                IN  FRound(a.m * Pow2(a.e - lo) + b.m * Pow2(b.e - lo), lo)
           : a \in {x}, b \in {y} })

FSub(a, b) == FAdd(a, FNeg(b))

FMul(x, y) == Only({ FRound(a.m * b.m, a.e + b.e) : a \in {x}, b \in {y} })

\* x / y for finite x; y may be 0.0 (x > 0 gives +inf) or +inf (gives 0.0).
\* The quotient is computed to Precision + 2 bits and a sticky bit.
FDiv(x, y) ==
    Only({ IF b = PosInf THEN Zero
           ELSE IF b.m = 0 THEN PosInf
           ELSE IF a.m = 0 THEN Zero
           ELSE LET n == Abs(a.m) * Pow2(Precision + 2)
                    q == n \div Abs(b.m)
                    s == IF n % Abs(b.m) = 0 THEN 0 ELSE 1
                IN  FRound(Sign(a.m) * Sign(b.m) * (2 * q + s),
                           a.e - b.e - (Precision + 2) - 1)
           : a \in {x}, b \in {y} })

\* x > y
FGt(x, y) ==
    \E a \in {x}, b \in {y} :
        IF a.m = 0 THEN b.m < 0
        ELSE IF b.m = 0 THEN a.m > 0
        ELSE IF Sign(a.m) # Sign(b.m) THEN a.m > 0
        ELSE IF a.e # b.e THEN (a.e > b.e) = (a.m > 0)
        ELSE a.m > b.m

\* `x as u32` for a finite x: truncation toward zero, negatives give 0
FTrunc(x) ==
    Only({ IF a.m <= 0 THEN 0
           ELSE IF a.e >= 0 THEN a.m * Pow2(a.e)
           ELSE IF -a.e >= Precision THEN 0
           ELSE a.m \div Pow2(-a.e)
           : a \in {x} })

\* `x as u8`: truncation toward zero, saturating at 0 and 255
FTruncU8(x) == Only({ IF n > U8Max THEN U8Max ELSE n : n \in {FTrunc(x)} })

\* the float written as the decimal literal n/d
Lit(n, d) == FDiv(FInt(n), FInt(d))

(***************************************************************************)
(* complex.rs                                                              *)
(***************************************************************************)
Complex(real, imag) == [real |-> real, imag |-> imag]

\* impl Add for Complex
ComplexAdd(a, b) == Complex(FAdd(a.real, b.real), FAdd(a.imag, b.imag))

\* impl Mul for Complex
ComplexMul(x, y) ==
    Only({ Complex(FSub(FMul(a.real, b.real), FMul(a.imag, b.imag)),
                   FAdd(FMul(a.real, b.imag), FMul(a.imag, b.real)))
           : a \in {x}, b \in {y} })

(***************************************************************************)
(* main.rs: SetDefinition                                                  *)
(***************************************************************************)
\* SetDefinition::new.  It has no failure path: every argument list yields
\* a SetDefinition.
New(min_real, max_real, min_imag, max_imag, width_px, oversampling, max_iterations, escape_radius) ==
    LET px_size   == FDiv(FSub(max_real, min_real), FInt(width_px))
        height_px == FDiv(FSub(max_imag, min_imag), px_size)
    IN  [origin         |-> Complex(min_real, min_imag),
         px_size        |-> px_size,
         width_px       |-> width_px,
         height_px      |-> FTrunc(height_px),
         oversampling   |-> oversampling,
         max_iterations |-> max_iterations,
         escape_radius  |-> escape_radius]

\* faulty variant: the remainder rows go to the last strips instead of the first
SplitHeights_RemainderLast(height_px, count) ==
    [i \in 1..count |->
        (height_px \div count)
            + (IF count - i < height_px % count THEN 1 ELSE 0)]

\* the strip heights: height_px / count each, the first height_px % count
\* of them one more
SplitHeights(height_px, count) ==
    [i \in 1..count |->
        (height_px \div count) + (IF i - 1 < height_px % count THEN 1 ELSE 0)]

\* the loop `for i in 0..count` of split; i counts from 1 here
RECURSIVE SplitLoop(_, _, _, _, _)
SplitLoop(self, heights, i, imag, defs) ==
    IF i > Len(heights) THEN defs
    ELSE LET def == [self EXCEPT !.origin = Complex(self.origin.real, imag),
                                 !.height_px = heights[i]]
         IN  Only({ SplitLoop(self, heights, i + 1, next_imag, next_defs)
                    : next_imag \in
                          {FAdd(imag, FMul(FInt(heights[i]), self.px_size))},
                      next_defs \in {Append(defs, def)} })

\* SetDefinition::split, for count >= 1
split(self, count) ==
    SplitLoop(self, SplitHeights(self.height_px, count), 1,
              self.origin.imag, <<>>)

(***************************************************************************)
(* main.rs: the evaluators                                                 *)
(***************************************************************************)
\* the loop `for i in 0..max_iterations` of escape_iterations
RECURSIVE EscapeLoop(_, _, _, _, _)
EscapeLoop(point, z, i, max_iterations, escape_value) ==
    IF i >= max_iterations THEN 0
    ELSE LET zr2 == FMul(z.real, z.real)
             zi2 == FMul(z.imag, z.imag)
             zri == FMul(z.real, z.imag)
         IN  IF FGt(FAdd(zr2, zi2), escape_value) THEN i
             ELSE Only({ EscapeLoop(point, next_z, i + 1, max_iterations,
                                    escape_value)
                         : next_z \in
                             {Complex(FAdd(FSub(zr2, zi2), point.real),
                                      FAdd(FAdd(zri, zri), point.imag))} })

\* faulty variant: the loop runs over 0..=max_iterations
escape_iterations_Inclusive(point, max_iterations, escape_radius) ==
    Only({ EscapeLoop(p, p, 0, max_iterations + 1, escape_value)
           : p \in {point},
             escape_value \in {FMul(escape_radius, escape_radius)} })

escape_iterations(point, max_iterations, escape_radius) ==
    Only({ EscapeLoop(p, p, 0, max_iterations, escape_value)
           : p \in {point},
             escape_value \in {FMul(escape_radius, escape_radius)} })

\* calc_set: the sample of sub-row i and sub-column r is element
\* i * (width_px * oversampling) + r of the buffer (counting from 0)
calc_set(set_def) ==
    LET px_size == FDiv(set_def.px_size, FInt(set_def.oversampling))
        cols    == set_def.width_px * set_def.oversampling
        rows    == set_def.height_px * set_def.oversampling
        Sample(i, r) ==
            escape_iterations(
                ComplexAdd(set_def.origin,
                           Complex(FMul(FInt(r), px_size),
                                   FMul(FInt(i), px_size))),
                set_def.max_iterations, set_def.escape_radius)
    IN  [def  |-> set_def,
         data |-> [k \in 1..(rows * cols) |->
                      Sample((k - 1) \div cols, (k - 1) % cols)]]

\* the loop of escape_iter_range over set_vec[1..], counting from 1 here
RECURSIVE IterRangeLoop(_, _, _, _)
IterRangeLoop(set_vec, i, min, max) ==
    IF i > Len(set_vec) THEN <<min, max>>
    ELSE LET val == set_vec[i]
         IN  IterRangeLoop(set_vec, i + 1,
                           IF val < min THEN val ELSE min,
                           IF val > max THEN val ELSE max)

\* escape_iter_range, for a non-empty buffer: (min, max)
escape_iter_range(set_vec) ==
    IterRangeLoop(set_vec, 2, set_vec[1], set_vec[1])

(***************************************************************************)
(* vector3d.rs                                                             *)
(***************************************************************************)
Vector3d(x, y, z) == [x |-> x, y |-> y, z |-> z]

\* impl Add for Vector3d
VAdd(a, b) == Vector3d(FAdd(a.x, b.x), FAdd(a.y, b.y), FAdd(a.z, b.z))

\* impl Sub for Vector3d
VSub(a, b) == Vector3d(FSub(a.x, b.x), FSub(a.y, b.y), FSub(a.z, b.z))

\* impl Div<f64> for Vector3d
VDiv(a, divisor) ==
    Vector3d(FDiv(a.x, divisor), FDiv(a.y, divisor), FDiv(a.z, divisor))

\* impl Mul<f64> for Vector3d
VMul(a, multiplier) ==
    Vector3d(FMul(a.x, multiplier), FMul(a.y, multiplier),
             FMul(a.z, multiplier))

(***************************************************************************)
(* colour.rs                                                               *)
(***************************************************************************)
Colour(r, g, b) == [r |-> r, g |-> g, b |-> b]

BLACK == Colour(0, 0, 0)

\* Colour::from_vector3d: each component `as u8`
from_vector3d(vec3d) ==
    Colour(FTruncU8(vec3d.x), FTruncU8(vec3d.y), FTruncU8(vec3d.z))

\* Colour::to_vector3d and Vector3d::from_colour
to_vector3d(col) == Vector3d(FInt(col.r), FInt(col.g), FInt(col.b))

\* what a function that panicked leaves, and what one that returned leaves
Panicked == [panic |-> TRUE, val |-> <<>>]

Returned(v) == [panic |-> FALSE, val |-> v]

\* relative_vectors: from each vertex to the next
relative_vectors(vertices) ==
    IF Len(vertices) < 2 THEN <<>>
    ELSE [i \in 1..(Len(vertices) - 1) |-> VSub(vertices[i + 1], vertices[i])]

\* faulty variant: the remainder is not distributed
SegSizes_NoRemainder(num_cols, num_segs) ==
    [i \in 1..num_segs |-> num_cols \div num_segs]

\* seg_sizes: cols_per_seg each, the first `remainder` of them one more
SegSizes(num_cols, num_segs) ==
    [i \in 1..num_segs |->
        (num_cols \div num_segs)
            + (IF i - 1 < num_cols % num_segs THEN 1 ELSE 0)]

\* the step of a leg from one colour to the next: the leg's vector divided
\* by cols_per_seg
ColVec(vec, cols_per_seg) == VDiv(vec, FInt(cols_per_seg))

\* one round of `for i in 0..rel_vecs.len()`: the colours strictly inside
\* leg i, then the leg's end vertex
PaletteLeg(colours, vertices, rel_vecs, cols_per_seg, seg_sizes, i) ==
    LET start   == vertices[i]
        col_vec == ColVec(rel_vecs[i], cols_per_seg)
    IN  [c \in 1..(seg_sizes[i] - 1) |->
            from_vector3d(VAdd(start, VMul(col_vec, FInt(c))))]
        \o <<colours[i + 1]>>

RECURSIVE PaletteLegs(_, _, _, _, _, _)
PaletteLegs(colours, vertices, rel_vecs, cols_per_seg, seg_sizes, i) ==
    IF i > Len(rel_vecs) THEN <<>>
    ELSE PaletteLeg(colours, vertices, rel_vecs, cols_per_seg, seg_sizes, i)
         \o PaletteLegs(colours, vertices, rel_vecs, cols_per_seg,
                        seg_sizes, i + 1)

\* palette(size, colours)
palette(size, colours) ==
    IF Len(colours) < 2 THEN Panicked
    ELSE IF size < Len(colours) THEN Panicked
    ELSE LET num_cols     == size - 1
             vertices     == [i \in 1..Len(colours) |-> to_vector3d(colours[i])]
             rel_vecs     == relative_vectors(vertices)
             num_segs     == Len(colours) - 1
             cols_per_seg == num_cols \div num_segs
             seg_sizes    == SegSizes(num_cols, num_segs)
         IN  Returned(<<colours[1]>>
                      \o PaletteLegs(colours, vertices, rel_vecs,
                                     cols_per_seg, seg_sizes, 1))

\* the buffer indices pixel_colour reads, in the order of its two loops
\* (i outer, r inner), counting from 0
PixelIndices(real_idx, imag_idx, width_px, oversampling) ==
    LET idx_base == (width_px * imag_idx * oversampling * oversampling)
                        + (real_idx * oversampling)
    IN  [n \in 1..(oversampling * oversampling) |->
            idx_base + ((n - 1) \div oversampling) * width_px * oversampling
                     + ((n - 1) % oversampling)]

\* total_col after the loops: the colours added one by one to (0, 0, 0)
RECURSIVE TotalCol(_, _)
TotalCol(cols, n) ==
    IF n = 0 THEN Vector3d(Zero, Zero, Zero)
    ELSE VAdd(TotalCol(cols, n - 1), to_vector3d(cols[n]))

\* faulty variant: the total is divided by oversampling, not by its square
AverageCol_ByOversampling(total_col, oversampling) ==
    VDiv(total_col, FInt(oversampling))

\* average_col: total_col / ((oversampling * oversampling) as f64)
AverageCol(total_col, oversampling) ==
    VDiv(total_col, FInt(oversampling * oversampling))

\* pixel_colour.  Indexing the buffer or the palette out of bounds panics,
\* and so does iters - min_iter below zero (it overflows, or wraps to an
\* index far out of bounds).
pixel_colour(set, real_idx, imag_idx, width_px, oversampling, min_iter, colours) ==
    LET idxs == PixelIndices(real_idx, imag_idx, width_px, oversampling)
        InPalette(iters) ==
            iters = 0 \/ (iters >= min_iter /\ iters - min_iter < Len(colours))
        Col(iters) == IF iters = 0 THEN BLACK
                      ELSE colours[iters - min_iter + 1]
    IN  IF \E n \in DOMAIN idxs : idxs[n] >= Len(set) THEN Panicked
        ELSE IF \E n \in DOMAIN idxs : ~InPalette(set[idxs[n] + 1])
        THEN Panicked
        ELSE LET cols == [n \in DOMAIN idxs |-> Col(set[idxs[n] + 1])]
             IN  Returned(from_vector3d(
                     AverageCol(TotalCol(cols, Len(cols)), oversampling)))

(***************************************************************************)
(* State.  calc_set_parallel runs as an orchestrating thread (pc, sets,    *)
(* result), a thread pool (queue: the submitted closures not yet started;  *)
(* running: the strips a pool thread is computing) and an mpsc channel     *)
(* (chan).  failed holds the strips whose closure panicked; overtakes      *)
(* counts the results sent ahead of a lower-indexed unfinished strip.      *)
(* call is the invocation of a pure function under check.                  *)
(***************************************************************************)
VARIABLES set_def, threads, pc, defs, queue, running, chan, sets,
          result, failed, overtakes, call

vars == <<set_def, threads, pc, defs, queue, running, chan, sets,
          result, failed, overtakes, call>>

orch == <<set_def, threads, pc, defs, queue, running, chan, sets,
          result, failed, overtakes>>

NoCall == [fn |-> "none", args |-> <<>>, done |-> FALSE, ret |-> <<>>]

NoResult == [def |-> <<>>, data |-> <<>>]

\* the arguments of SetDefinition::new for the regions rendered in parallel:
\* (min_real, max_real, min_imag, max_imag) in fifths, then width_px,
\* oversampling, max_iterations and the escape radius
\* the worker counts calc_set_parallel is called with
ThreadCounts == {1, 2}

ParallelRegions ==
    { New(Lit(-8, 5), Lit(-4, 5), Lit(-10, 5), Lit(6, 5), 1, 1, 3, FInt(2)),
      New(Lit(-10, 5), Lit(5, 5), Lit(-5, 5), Lit(5, 5), 3, 1, 2, FInt(2)) }

(***************************************************************************)
(* calc_set_parallel                                                       *)
(***************************************************************************)
\* the senders of the channel that are alive: tx, which the orchestrator
\* holds until it returns, and the tx_clone of every closure that has
\* neither finished nor panicked
Senders == 1 + Len(queue) + Cardinality(running)

\* faulty variant: the loop stops one result short
RecvMore_OneShort(n, size) == n + 1 < size

\* `while sets.len() < size`
RecvMore(n, size) == n < size

\* insertion of one (idx, data) pair into a list sorted by idx, after the
\* pairs that do not compare greater (sort_by is stable)
RECURSIVE InsertByIdx(_, _)
InsertByIdx(pair, sorted) ==
    Only({ IF s = <<>> THEN <<pair>>
           ELSE IF pair[1] < Head(s)[1] THEN <<pair>> \o s
           ELSE <<Head(s)>> \o InsertByIdx(pair, Tail(s))
           : s \in {sorted} })

\* faulty variant: the results are left in their order of arrival
SortByIdx_ArrivalOrder(pairs) == pairs

\* sets.sort_by(|&(idx1, _), &(idx2, _)| idx1.cmp(&idx2)): the pairs are
\* inserted one by one, first to last
RECURSIVE SortByIdx(_)
SortByIdx(pairs) ==
    Only({ IF ps = <<>> THEN <<>>
           ELSE InsertByIdx(ps[Len(ps)], SortByIdx(SubSeq(ps, 1, Len(ps) - 1)))
           : ps \in {pairs} })

\* `for v in data_vec.iter_mut() { data.append(v) }`
RECURSIVE AppendAll(_)
AppendAll(pairs) ==
    Only({ IF ps = <<>> THEN <<>>
           ELSE Head(ps)[2].data \o AppendAll(Tail(ps))
           : ps \in {pairs} })

\* ThreadPool::new, mpsc::channel, set_def.split(threads * 10) and the loop
\* `for (def) in defs.into_iter().enumerate()`, which queues the
\* closures of strips 0, 1, ... in this order.  thread_pool.execute never
\* blocks and a pool thread's steps commute with the later submissions, so
\* the loop is one step.
Start ==
    /\ pc = "start"
    /\ defs' = split(set_def, threads * StripsPerThread)
    /\ queue' = [k \in 1..(threads * StripsPerThread) |-> k - 1]
    /\ pc' = "recv"
    /\ UNCHANGED <<set_def, threads, running, chan, sets, result,
                   failed, overtakes, call>>

\* an idle pool thread takes the oldest queued closure
WorkerTake ==
    /\ queue # <<>>
    /\ Cardinality(running) < threads
    /\ running' = running \cup {Head(queue)}
    /\ queue' = Tail(queue)
    /\ UNCHANGED <<set_def, threads, pc, defs, chan, sets, result,
                   failed, overtakes, call>>

\* the closure of strip i: calc_set(&def), then tx_clone.send((idx, set_data))
WorkerSend(i) ==
    /\ i \in running
    /\ LET ahead == \E j \in running : j < i
       IN  /\ ahead => overtakes + Cardinality(failed) < MaxUpsets
           /\ overtakes' = IF ahead THEN overtakes + 1 ELSE overtakes
    /\ chan' = Append(chan, <<i, calc_set(defs[i + 1])>>)
    /\ running' = running \ {i}
    /\ UNCHANGED <<set_def, threads, pc, defs, queue, sets, result,
                   failed, call>>

\* the closure of strip i panics before it sends: its tx_clone is dropped
\* and the pool thread is replaced
WorkerPanic(i) ==
    /\ i \in running
    /\ overtakes + Cardinality(failed) < MaxUpsets
    /\ failed' = failed \cup {i}
    /\ running' = running \ {i}
    /\ UNCHANGED <<set_def, threads, pc, defs, queue, chan, sets,
                   result, overtakes, call>>

\* one round of the while loop: rx.recv() returns a message when there is
\* one, returns Err when the channel is empty and no sender is alive, and
\* blocks otherwise
Recv ==
    /\ pc = "recv"
    /\ RecvMore(Len(sets), Len(defs))
    /\ chan # <<>> \/ Senders = 0
    /\ IF chan # <<>>
       THEN /\ sets' = Append(sets, Head(chan))
            /\ chan' = Tail(chan)
            /\ pc' = pc
       ELSE /\ pc' = "panic"
            /\ UNCHANGED <<sets, chan>>
    /\ UNCHANGED <<set_def, threads, defs, queue, running, result,
                   failed, overtakes, call>>

\* the loop is left: sort, strip the indices, concatenate, return
Finish ==
    /\ pc = "recv"
    /\ ~RecvMore(Len(sets), Len(defs))
    /\ sets' = SortByIdx(sets)
    /\ result' = [def |-> set_def, data |-> AppendAll(SortByIdx(sets))]
    /\ pc' = "done"
    /\ UNCHANGED <<set_def, threads, defs, queue, running, chan,
                   failed, overtakes, call>>

Init ==
    /\ set_def \in ParallelRegions
    /\ threads \in ThreadCounts
    /\ pc = "start"
    /\ defs = <<>>
    /\ queue = <<>>
    /\ running = {}
    /\ chan = <<>>
    /\ sets = <<>>
    /\ result = NoResult
    /\ failed = {}
    /\ overtakes = 0
    /\ call = NoCall

\* the strip indices of the largest worker count
Strips == UNION {0..(t * StripsPerThread - 1) : t \in ThreadCounts}

Next ==
    \/ Start
    \/ WorkerTake
    \/ \E i \in Strips : WorkerSend(i)
    \/ \E i \in Strips : WorkerPanic(i)
    \/ Recv
    \/ Finish

Spec == Init /\ [][Next]_vars

\* a step of the orchestrating thread or of a pool thread that runs its
\* closure to completion
Progress ==
    \/ Start
    \/ WorkerTake
    \/ \E i \in Strips : WorkerSend(i)
    \/ Recv
    \/ Finish

\* The orchestrating thread and the pool threads are OS threads: while one of
\* them can take a step, one of them does.  Nothing obliges a closure to
\* panic.
FairSpec == Init /\ [][Next]_vars /\ WF_vars(Progress)

(***************************************************************************)
(* The pure functions, each called once on arguments drawn from bounded    *)
(* sets: call.args are the arguments and, once call.done, call.ret is what *)
(* the function returned.  The orchestrator's variables stay idle.         *)
(***************************************************************************)
Call(fn, args) == [fn |-> fn, args |-> args, done |-> FALSE, ret |-> <<>>]

\* the SetDefinition of tests::split_simple, with the given height
TestDef(height_px) ==
    [origin         |-> Complex(FInt(1), FInt(2)),
     px_size        |-> Lit(1, 100),
     width_px       |-> 200,
     height_px      |-> height_px,
     oversampling   |-> 2,
     max_iterations |-> 100,
     escape_radius  |-> FInt(2)]

SplitCalls ==
    { Call("split", <<TestDef(h), count>>) :
        h \in 0..MaxHeight, count \in 1..MaxCount }

\* points on a grid of quarters around the set, two escape radii
EscapeCalls ==
    { Call("escape_iterations", <<Complex(Lit(re, 4), Lit(im, 4)), n, radius>>) :
        re \in -8..4, im \in -4..4, n \in 0..MaxIterations,
        radius \in {Lit(1, 2), FInt(2)} }

\* rectangles (min_real, max_real, min_imag, max_imag) with min < max
Rectangles ==
    { <<FNeg(FInt(2)), FInt(1), FNeg(FInt(1)), FInt(1)>>,
      <<Lit(-8, 5), Lit(-4, 5), Lit(-10, 5), Lit(6, 5)>> }

NewCalls ==
    { Call("new", <<rect[1], rect[2], rect[3], rect[4],
                    width_px, oversampling, MaxIterations, radius>>) :
        rect \in Rectangles, width_px \in 0..MaxWidth,
        oversampling \in 0..MaxOversampling,
        radius \in {FNeg(FInt(1)), Zero, FInt(2)} }

\* black, red, yellow and the first of render's palette vertices (0x010d62)
VertexColours ==
    { BLACK, Colour(255, 0, 0), Colour(255, 255, 0), Colour(1, 13, 98) }

VertexLists ==
    UNION { [1..n -> VertexColours] : n \in 1..MaxVertices }

PaletteCalls ==
    { Call("palette", <<size, colours>>) :
        size \in 0..MaxPaletteSize, colours \in VertexLists }

\* buffers of width_px * height_px * oversampling^2 samples, all a except
\* that sample number hot (if any) is b
PatternBuffer(len, a, b, hot) == [k \in 1..len |-> IF k = hot THEN b ELSE a]

\* a palette for the sample values min_iter..MaxSample: the gradient from
\* 0x010d62 to 0xffb700, two of render's palette vertices
PixelPalette(min_iter) ==
    palette(MaxSample + 2 - min_iter,
            <<Colour(1, 13, 98), Colour(255, 183, 0)>>).val

\* pixel_colour called as render calls it: on a pixel of the buffer, with
\* the buffer's minimum as min_iter
PixelCalls ==
    UNION { { Call("pixel_colour",
                   <<PatternBuffer(w * h * os * os, a, b, hot), x, y, w, os,
                     escape_iter_range(
                         PatternBuffer(w * h * os * os, a, b, hot))[1],
                     PixelPalette(escape_iter_range(
                         PatternBuffer(w * h * os * os, a, b, hot))[1])>>) :
                a \in 0..MaxSample, b \in 0..MaxSample,
                hot \in 0..(w * h * os * os), x \in 0..(w - 1),
                y \in 0..(h - 1) } :
            w \in {1, 2}, h \in {1, 2}, os \in 1..MaxOversampling }

SplitCall ==
    /\ call.fn = "split"
    /\ ~call.done
    /\ call' = [call EXCEPT !.done = TRUE,
                            !.ret = split(call.args[1], call.args[2])]
    /\ UNCHANGED orch

EscapeCall ==
    /\ call.fn = "escape_iterations"
    /\ ~call.done
    /\ call' = [call EXCEPT
                    !.done = TRUE,
                    !.ret = escape_iterations(call.args[1], call.args[2],
                                              call.args[3])]
    /\ UNCHANGED orch

NewCall ==
    /\ call.fn = "new"
    /\ ~call.done
    /\ call' = [call EXCEPT
                    !.done = TRUE,
                    !.ret = Returned(New(call.args[1], call.args[2],
                                         call.args[3], call.args[4],
                                         call.args[5], call.args[6],
                                         call.args[7], call.args[8]))]
    /\ UNCHANGED orch

PaletteCall ==
    /\ call.fn = "palette"
    /\ ~call.done
    /\ call' = [call EXCEPT !.done = TRUE,
                            !.ret = palette(call.args[1], call.args[2])]
    /\ UNCHANGED orch

PixelColourCall ==
    /\ call.fn = "pixel_colour"
    /\ ~call.done
    /\ call' = [call EXCEPT
                    !.done = TRUE,
                    !.ret = pixel_colour(call.args[1], call.args[2],
                                         call.args[3], call.args[4],
                                         call.args[5], call.args[6],
                                         call.args[7])]
    /\ UNCHANGED orch

CallInit ==
    /\ call \in SplitCalls \cup EscapeCalls \cup NewCalls \cup PaletteCalls
                \cup PixelCalls
    /\ set_def = <<>>
    /\ threads = 0
    /\ pc = "idle"
    /\ defs = <<>>
    /\ queue = <<>>
    /\ running = {}
    /\ chan = <<>>
    /\ sets = <<>>
    /\ result = NoResult
    /\ failed = {}
    /\ overtakes = 0

CallNext ==
    \/ SplitCall
    \/ EscapeCall
    \/ NewCall
    \/ PaletteCall
    \/ PixelColourCall

CallSpec == CallInit /\ [][CallNext]_vars

(***************************************************************************)
(* render, step by step: the frame of the call is held in call.  Its       *)
(* fields are the argument (set), the position (pc: "range", "palette",    *)
(* "pixels", then "done" or "panic"), the locals min_iter, max_iter and    *)
(* colours, the number n of coordinates the loop has taken from            *)
(* img.coordinates(), the pixels set so far (img: triples (x, y, colour))  *)
(* and, for each of them, the buffer indices pixel_colour read (reads).    *)
(***************************************************************************)
\* Colour::from_24bit_int
from_24bit_int(colour) ==
    Colour((colour \div 65536) % 256, (colour \div 256) % 256, colour % 256)

\* palette_vertices: 0x010d62, 0x63b8ec, 0xffffff, 0xffb700, 0x611012
palette_vertices ==
    << from_24bit_int(68962), from_24bit_int(6535404),
       from_24bit_int(16777215), from_24bit_int(16758528),
       from_24bit_int(6361106) >>

RenderFrame(set) ==
    [fn |-> "render", set |-> set, pc |-> "range", min_iter |-> 0,
     max_iter |-> 0, colours |-> <<>>, n |-> 0, img |-> <<>>, reads |-> <<>>]

\* a SetDefinition of the given size in pixels
RenderDef(width_px, height_px, oversampling) ==
    [TestDef(height_px) EXCEPT !.width_px = width_px,
                               !.oversampling = oversampling]

\* the sizes in pixels of the rendered buffers
RenderSizes == {1, 2}
\* the escape counts the rendered buffers hold
RenderCounts == {0, 1, 2, 5, 6}

\* the buffers render is called on: calc_set of the regions, and buffers
\* of width_px * height_px * oversampling^2 samples holding a everywhere
\* but b at sample number hot (if any)
RenderCalls ==
    { RenderFrame(calc_set(region)) : region \in ParallelRegions }
    \cup UNION { { RenderFrame([def  |-> RenderDef(w, h, os),
                                data |-> PatternBuffer(w * h * os * os,
                                                       a, b, hot)]) :
                     a \in RenderCounts, b \in RenderCounts,
                     hot \in 0..(w * h * os * os) } :
                 w \in RenderSizes, h \in {0} \cup RenderSizes,
                 os \in 1..MaxOversampling }

\* let (min_iter, max_iter) = escape_iter_range(&set.data); set_vec[0]
\* panics on an empty buffer
RenderRange ==
    /\ call.fn = "render"
    /\ call.pc = "range"
    /\ call' = IF call.set.data = <<>>
               THEN [call EXCEPT !.pc = "panic"]
               ELSE [call EXCEPT
                        !.pc = "palette",
                        !.min_iter = escape_iter_range(call.set.data)[1],
                        !.max_iter = escape_iter_range(call.set.data)[2]]
    /\ UNCHANGED orch

\* colours = colour::palette(max_iter - min_iter + 1, &palette_vertices)
RenderPalette ==
    /\ call.fn = "render"
    /\ call.pc = "palette"
    /\ LET num_colours == call.max_iter - call.min_iter + 1
           made == palette(num_colours, palette_vertices)
       IN  call' = IF made.panic
                   THEN [call EXCEPT !.pc = "panic"]
                   ELSE [call EXCEPT !.pc = "pixels", !.colours = made.val]
    /\ UNCHANGED orch

\* one turn of `for (x, y) in img.coordinates()`: the coordinates come row
\* by row, x running fastest
RenderPixel ==
    /\ call.fn = "render"
    /\ call.pc = "pixels"
    /\ call.n < call.set.def.width_px * call.set.def.height_px
    /\ LET def      == call.set.def
           x        == call.n % def.width_px
           y        == call.n \div def.width_px
           real_idx == x
           imag_idx == def.height_px - y - 1
           clr      == pixel_colour(call.set.data, real_idx, imag_idx,
                                    def.width_px, def.oversampling,
                                    call.min_iter, call.colours)
           idxs     == PixelIndices(real_idx, imag_idx, def.width_px,
                                    def.oversampling)
       IN  call' = IF clr.panic
                   THEN [call EXCEPT !.pc = "panic"]
                   ELSE [call EXCEPT
                            !.n = call.n + 1,
                            !.img = Append(call.img, <<x, y, clr.val>>),
                            !.reads = Append(call.reads, idxs)]
    /\ UNCHANGED orch

\* the loop is over: img is returned
RenderReturn ==
    /\ call.fn = "render"
    /\ call.pc = "pixels"
    /\ call.n = call.set.def.width_px * call.set.def.height_px
    /\ call' = [call EXCEPT !.pc = "done"]
    /\ UNCHANGED orch

RenderInit ==
    /\ call \in RenderCalls
    /\ set_def = <<>>
    /\ threads = 0
    /\ pc = "idle"
    /\ defs = <<>>
    /\ queue = <<>>
    /\ running = {}
    /\ chan = <<>>
    /\ sets = <<>>
    /\ result = NoResult
    /\ failed = {}
    /\ overtakes = 0

RenderNext ==
    \/ RenderRange
    \/ RenderPalette
    \/ RenderPixel
    \/ RenderReturn

RenderSpec == RenderInit /\ [][RenderNext]_vars

(***************************************************************************)
(* Claims about calc_set_parallel                                          *)
(***************************************************************************)
\* the per-strip buffers, each computed by calc_set on its own strip, one
\* after the other in ascending strip index
RECURSIVE ConcatStrips(_)
ConcatStrips(ds) ==
    IF ds = <<>> THEN <<>>
    ELSE calc_set(Head(ds)).data \o ConcatStrips(Tail(ds))

\* C1: the buffer calc_set_parallel returns is element for element the
\* buffer calc_set returns for the unsplit region.
C1_ParallelEqualsSingle ==
    pc = "done" => result.data = calc_set(set_def).data

\* C2: whatever the order of arrival, the returned buffer is the
\* concatenation of the per-strip buffers in ascending strip index
\* 0..K-1, each strip exactly once; so it is the same in every run.
C2_ConcatenatedInStripOrder ==
    pc = "done" =>
        /\ [k \in 1..Len(sets) |-> sets[k][1]]
               = [k \in 1..(threads * StripsPerThread) |-> k - 1]
        /\ result.data = ConcatStrips(defs)

\* a run has returned in which a result arrived ahead of a lower-indexed
\* strip and the strips' buffers are not all alike
C2_Witness ==
    /\ pc = "done"
    /\ overtakes > 0
    /\ \E i, j \in 1..Len(result.data) : result.data[i] # result.data[j]

\* C3: the orchestrator leaves the receive loop only with K = 10 * T
\* results in hand, and when no closure panics it eventually returns.
C3_WaitsForAllThenReturns ==
    /\ [][pc' = "done" /\ pc # "done"
            => Len(sets) = threads * StripsPerThread]_vars
    /\ <>(pc = "done" \/ failed # {})

\* a failure-free run has returned with all K results
C3_Witness ==
    /\ pc = "done"
    /\ failed = {}
    /\ Len(sets) = threads * StripsPerThread

\* C4: after a closure has panicked before sending, once nothing else is
\* queued, running or in flight, the orchestrator is in its fatal branch
\* (not blocked in rx.recv(), not returning a buffer).
C4_WorkerFailureAborts ==
    (failed # {} /\ queue = <<>> /\ running = {} /\ chan = <<>>)
        => pc = "panic"

(***************************************************************************)
(* Claims about the pure functions                                         *)
(***************************************************************************)
RECURSIVE SumHeights(_)
SumHeights(strips) ==
    IF strips = <<>> THEN 0
    ELSE Head(strips).height_px + SumHeights(Tail(strips))

\* C5: split(count) returns count strips whose heights sum to height_px;
\* each is floor(height_px / count) or one more, height_px mod count of
\* them have the extra row, and those are the strips of lowest index.
C5_SplitHeights ==
    (call.fn = "split" /\ call.done) =>
        LET height_px == call.args[1].height_px
            count     == call.args[2]
            strips    == call.ret
            base      == height_px \div count
            extra     == {i \in 1..Len(strips) :
                            strips[i].height_px = base + 1}
        IN  /\ Len(strips) = count
            /\ SumHeights(strips) = height_px
            /\ \A i \in 1..Len(strips) :
                   strips[i].height_px \in {base, base + 1}
            /\ Cardinality(extra) = height_px % count
            /\ extra = 1..(height_px % count)

\* a split with a remainder that leaves some strips without the extra row
C5_Witness ==
    /\ call.fn = "split"
    /\ call.done
    /\ call.args[2] > 1
    /\ call.args[1].height_px > call.args[2]
    /\ call.args[1].height_px % call.args[2] > 1

\* the gaps of leg j: floor((size - 1) / segments), one more for the first
\* (size - 1) mod segments legs
LegGaps(size, segments, j) ==
    ((size - 1) \div segments)
        + (IF j <= (size - 1) % segments THEN 1 ELSE 0)

\* the position (from 1) of vertex j: one past the gaps of legs 1..j-1
RECURSIVE VertexPos(_, _, _)
VertexPos(size, segments, j) ==
    IF j = 1 THEN 1
    ELSE VertexPos(size, segments, j - 1) + LegGaps(size, segments, j - 1)

\* a palette call within palette's preconditions
PaletteCalled ==
    /\ call.fn = "palette"
    /\ call.done
    /\ Len(call.args[2]) >= 2
    /\ call.args[1] >= Len(call.args[2])

\* C6: palette(size, vertices) returns size colours, the first and last
\* are the first and last vertex, and every vertex j stands unchanged at
\* the index given by the gap counts of the legs before it.
C6_PaletteVertices ==
    PaletteCalled =>
        LET size     == call.args[1]
            vertices == call.args[2]
            segments == Len(vertices) - 1
            out      == call.ret.val
        IN  /\ ~call.ret.panic
            /\ Len(out) = size
            /\ out[1] = vertices[1]
            /\ out[size] = vertices[Len(vertices)]
            /\ \A j \in 1..Len(vertices) :
                   out[VertexPos(size, segments, j)] = vertices[j]

\* a palette of three vertices whose first leg has the extra gap
C6_Witness ==
    /\ PaletteCalled
    /\ Len(call.args[2]) = 3
    /\ (call.args[1] - 1) % 2 = 1
    /\ call.args[2][1] # call.args[2][2]
    /\ call.args[2][2] # call.args[2][3]

\* C7: in every leg, with start vertex s, leg vector v and the leg's own
\* gap count g, the colours strictly between the vertices are
\* trunc(s + (v / g) * step) for step = 1..g-1, then the end vertex.
C7_LegInterpolation ==
    PaletteCalled =>
        LET size     == call.args[1]
            vertices == call.args[2]
            segments == Len(vertices) - 1
            out      == call.ret.val
        IN  \A j \in 1..segments :
                LET s  == to_vector3d(vertices[j])
                    v  == VSub(to_vector3d(vertices[j + 1]), s)
                    g  == LegGaps(size, segments, j)
                    at == VertexPos(size, segments, j)
                IN  /\ \A step \in 1..(g - 1) :
                           out[at + step] =
                               from_vector3d(
                                   VAdd(s, VMul(VDiv(v, FInt(g)), FInt(step))))
                    /\ out[at + g] = vertices[j + 1]

\* C8: SetDefinition::new rejects width_px = 0, oversampling = 0 and
\* escape_radius <= 0, so every SetDefinition it returns has
\* width_px > 0, oversampling >= 1 and escape_radius > 0.
C8_NewRejectsNonPositive ==
    (call.fn = "new" /\ call.done /\ ~call.ret.panic) =>
        /\ call.ret.val.width_px > 0
        /\ call.ret.val.oversampling >= 1
        /\ FGt(call.ret.val.escape_radius, Zero)

\* z_i of the recurrence z_0 = point, z_{i+1} = z_i^2 + point
RECURSIVE ZAt(_, _)
ZAt(point, i) ==
    IF i = 0 THEN point
    ELSE Only({ ComplexAdd(ComplexMul(z, z), point)
                : z \in {ZAt(point, i - 1)} })

\* |z|^2 > escape_radius^2
Escaped(z, escape_radius) ==
    FGt(FAdd(FMul(z.real, z.real), FMul(z.imag, z.imag)),
        FMul(escape_radius, escape_radius))

\* the indices i < max_iterations at which z_i has escaped
EscapeIndices(point, max_iterations, escape_radius) ==
    {i \in 0..(max_iterations - 1) : Escaped(ZAt(point, i), escape_radius)}

\* C9: escape_iterations returns the smallest index i < max_iterations at
\* which |z_i|^2 exceeds escape_radius^2, and 0 when there is none; so the
\* result is 0 or below max_iterations, and with max_iterations = 1 it is 0.
C9_SmallestEscapeIndex ==
    (call.fn = "escape_iterations" /\ call.done) =>
        LET max_iterations == call.args[2]
            escaped == EscapeIndices(call.args[1], max_iterations,
                                     call.args[3])
        IN  /\ escaped = {} => call.ret = 0
            /\ escaped # {} =>
                   /\ call.ret \in escaped
                   /\ \A i \in escaped : call.ret <= i
            /\ call.ret = 0 \/ call.ret < max_iterations
            /\ max_iterations = 1 => call.ret = 0

\* a point that first escapes after index 0 and has escaped again at a
\* later index below max_iterations
C9_Witness ==
    /\ call.fn = "escape_iterations"
    /\ call.done
    /\ call.ret >= 1
    /\ Cardinality(EscapeIndices(call.args[1], call.args[2], call.args[3])) > 1

\* the buffer indices (from 0) of the sub-samples of pixel
\* (real_idx, imag_idx): sub-rows imag_idx * oversampling and the next
\* oversampling - 1, sub-columns real_idx * oversampling and the next
\* oversampling - 1, in a buffer of width_px * oversampling columns
SubSamples(real_idx, imag_idx, width_px, oversampling) ==
    { row * (width_px * oversampling) + col :
        row \in (imag_idx * oversampling)..((imag_idx + 1) * oversampling - 1),
        col \in (real_idx * oversampling)..((real_idx + 1) * oversampling - 1) }

\* the values the sub-samples of the called pixel hold
PixelValues ==
    { call.args[1][k + 1] :
        k \in SubSamples(call.args[2], call.args[3], call.args[4],
                         call.args[5]) }

\* C10: for a pixel whose oversampling^2 sub-samples all hold the same
\* count i, pixel_colour returns palette[i - min_iter] when i is not 0 and
\* black when it is.
C10_UniformPixel ==
    (call.fn = "pixel_colour" /\ call.done) =>
        \A i \in 0..MaxSample :
            PixelValues = {i} =>
                /\ ~call.ret.panic
                /\ call.ret.val = IF i = 0 THEN BLACK
                                  ELSE call.args[7][i - call.args[6] + 1]

\* a pixel of four sub-samples that all hold the same non-zero count,
\* above the buffer's minimum
C10_Witness ==
    /\ call.fn = "pixel_colour"
    /\ call.done
    /\ call.args[5] = 2
    /\ \E i \in 1..MaxSample : PixelValues = {i} /\ i > call.args[6]

(***************************************************************************)
(* Claims about render                                                     *)
(***************************************************************************)
\* the samples of the rendered buffer
RenderedSamples == {call.set.data[k] : k \in DOMAIN call.set.data}

\* C11: for a non-empty buffer render does not abort; min_iter and
\* max_iter are the least and greatest sample of the whole buffer; the
\* palette has max_iter - min_iter + 1 colours; and every non-zero sample
\* i has its index i - min_iter within the palette.
C11_RenderBuildsPaletteAndMaps ==
    (call.fn = "render" /\ call.set.data # <<>>) =>
        /\ call.pc # "panic"
        /\ call.pc \notin {"range", "panic"} =>
               /\ call.min_iter \in RenderedSamples
               /\ call.max_iter \in RenderedSamples
               /\ \A i \in RenderedSamples :
                      call.min_iter <= i /\ i <= call.max_iter
        /\ call.pc \in {"pixels", "done"} =>
               /\ Len(call.colours) = call.max_iter - call.min_iter + 1
               /\ \A i \in RenderedSamples \ {0} :
                      /\ i - call.min_iter >= 0
                      /\ i - call.min_iter < Len(call.colours)
        /\ call.pc = "done" =>
               Len(call.img) =
                   call.set.def.width_px * call.set.def.height_px

\* the buffer indices the pixel taken as number k (from 1) read
ReadSet(k) == {call.reads[k][m] : m \in DOMAIN call.reads[k]}

\* C12: for a buffer of width_px * height_px * oversampling^2 samples,
\* render visits exactly width_px * height_px pixels, each image
\* coordinate once; for pixel (x, y) pixel_colour reads exactly the
\* oversampling^2 indices of sub-rows (height_px - 1 - y) * oversampling
\* and on, sub-columns x * oversampling and on; every index read is within
\* the buffer, distinct pixels read disjoint indices, and together they
\* read every element exactly once.
C12_RenderReadsEachSampleOnce ==
    (/\ call.fn = "render"
     /\ call.pc \in {"done", "panic"}
     /\ Len(call.set.data)
            = call.set.def.width_px * call.set.def.height_px
                * call.set.def.oversampling * call.set.def.oversampling) =>
        LET def == call.set.def
        IN  /\ Len(call.img) = def.width_px * def.height_px
            /\ {<<call.img[k][1], call.img[k][2]>> : k \in DOMAIN call.img}
                   = (0..(def.width_px - 1)) \X (0..(def.height_px - 1))
            /\ \A k \in DOMAIN call.reads :
                   /\ Len(call.reads[k])
                          = def.oversampling * def.oversampling
                   /\ ReadSet(k)
                          = SubSamples(call.img[k][1],
                                       def.height_px - 1 - call.img[k][2],
                                       def.width_px, def.oversampling)
                   /\ \A idx \in ReadSet(k) :
                          idx >= 0 /\ idx < Len(call.set.data)
            /\ \A j, k \in DOMAIN call.reads :
                   j # k => ReadSet(j) \cap ReadSet(k) = {}
            /\ \A idx \in 0..(Len(call.set.data) - 1) :
                   Cardinality({<<k, m>> \in (DOMAIN call.reads)
                                   \X (1..(def.oversampling * def.oversampling)) :
                                   call.reads[k][m] = idx}) = 1

=============================================================================
